---- MODULE Spec2Model ----
(***************************************************************************)
(* Upgrade-graph planner of examples/cincinnati (package graph):           *)
(* lifecycle phases, graph construction (NewGraph / buildEdges /           *)
(* initializeEdgesTo / assignEdgeWeights), shortest paths and the          *)
(* three-phase platform update planner (PlanOpenShiftUpdate).              *)
(*                                                                         *)
(* Versions are triples <<major, minor, patch>>, MajorMinors are pairs     *)
(* <<major, minor>>.  Dates and timestamps are integers (days); 0 is the   *)
(* zero time.  Edge weights are counted in hundredths, so that the         *)
(* constant delta = 0.01 of assignEdgeWeights is the integer 1.            *)
(***************************************************************************)
EXTENDS Integers, Sequences, FiniteSets, TLC

VARIABLES
    cfg,      \* the GraphConfig handed to NewGraph
    pc,       \* "config" | "built" | "failed" | "planned"
    graph,    \* the *Graph returned by NewGraph (NoGraph when it returned nil)
    errs,     \* the nodes named by the error NewGraph returned
    plan,     \* the result of the last PlanOpenShiftUpdate call
    lifecycle \* the arguments of a call into lifecycle.go and what it returned

vars == <<cfg, pc, graph, errs, plan, lifecycle>>

----------------------------------------------------------------------------
(* Bounds of the model *)

\* largest number of nodes in GraphConfig.Nodes (graph-construction runs)
MaxNodes == 3
\* release timestamps of nodes range over 1..MaxReleaseDate
MaxReleaseDate == 2
\* largest number of nodes in GraphConfig.Nodes (weight runs)
MaxWeightNodes == 5
\* largest number of nodes in GraphConfig.Nodes (planner runs)
MaxPlanNodes == 4
\* largest number of from nodes handed to PlanOpenShiftUpdate
MaxFroms == 1
\* platform minor versions of the platform runs range over 14..MaxPlatformMinor
MaxPlatformMinor == 17
\* lifecycle dates of the phase runs range over 1..MaxDate
MaxDate == 4
\* largest number of extension dates of the phase runs
MaxExtensions == 2
\* the extension phases of the comparison runs are Extension-1..MaxExtensionPhase
MaxExtensionPhase == 3
\* release days of the scenario runs range over 1..MaxScenarioReleaseDate
MaxScenarioReleaseDate == 7

----------------------------------------------------------------------------
(* Lifecycle phases: lifecycle.go *)

\* math.MaxInt of a build with 32-bit int
MaxInt == 2147483647

LifecyclePhaseFullSupport == 0
LifecyclePhaseMaintenance == 1
LifecyclePhaseEndOfLife == MaxInt - 2
LifecyclePhasePreGA == MaxInt - 1
LifeCyclePhaseUnknown == MaxInt

\* cmp.Compare on integers
CmpCompare(x, y) == IF x < y THEN -1 ELSE IF x > y THEN 1 ELSE 0

\* Compare following the numeric order of the constants
PhaseCompare_Numeric(l, other) == CmpCompare(l, other)

\* func (l LifecyclePhase) Compare(other LifecyclePhase) int
PhaseCompare(l, other) == CmpCompare(other, l)

\* the guard of LifecycleExtensionPhase letting EndOfLife-1 through
LifecycleExtensionPhasePanics_OffByOne(i) ==
    i < 1 \/ i >= LifecyclePhaseEndOfLife

\* the guard of LifecycleExtensionPhase: whether it panics on i
LifecycleExtensionPhasePanics(i) ==
    i < 1 \/ i >= LifecyclePhaseEndOfLife - 1

\* LifecycleExtensionPhase(i); "panic" stands for the panic of an invalid i
LifecycleExtensionPhase(i) ==
    IF LifecycleExtensionPhasePanics(i) THEN "panic" ELSE i + 1

\* func (l LifecyclePhase) String() string; the formatted "EUS-%d" is the pair
\* of its prefix and the number printed
LifecyclePhaseString(l) ==
    IF l = LifecyclePhasePreGA THEN <<"Pre-GA">>
    ELSE IF l = LifecyclePhaseFullSupport THEN <<"Full Support">>
    ELSE IF l = LifecyclePhaseMaintenance THEN <<"Maintenance">>
    ELSE IF l = LifecyclePhaseEndOfLife THEN <<"End of Life">>
    ELSE <<"EUS-", l - 1>>

RECURSIVE ExtensionWalk_FallsBackToMaintenance(_, _, _)
\* ExtensionWalk without the return of the last extension phase after the loop
ExtensionWalk_FallsBackToMaintenance(l, asOf, i) ==
    IF i < Len(l.Extensions)
    THEN IF asOf < l.Extensions[i + 1]
         THEN LifecycleExtensionPhase(i)
         ELSE ExtensionWalk_FallsBackToMaintenance(l, asOf, i + 1)
    ELSE LifecyclePhaseMaintenance

RECURSIVE ExtensionWalk(_, _, _)
\* the loop "for i := 1; i < len(l.Extensions); i++" of Phase
ExtensionWalk(l, asOf, i) ==
    IF i < Len(l.Extensions)
    THEN IF asOf < l.Extensions[i + 1]
         THEN LifecycleExtensionPhase(i)
         ELSE ExtensionWalk(l, asOf, i + 1)
    ELSE LifecycleExtensionPhase(Len(l.Extensions))

RECURSIVE OrderWalk(_, _, _)
\* the loop of ValidateOrder over expectedOrder from index i on; v is the
\* previous date
OrderWalk(expectedOrder, i, v) ==
    IF i > Len(expectedOrder) THEN TRUE
    ELSE IF expectedOrder[i] < v THEN FALSE
    ELSE OrderWalk(expectedOrder, i + 1, expectedOrder[i])

\* func (l LifecycleDates) ValidateOrder() error: TRUE when it returns nil
ValidateOrder(l) ==
    OrderWalk(<<l.FullSupport, l.Maintenance>> \o l.Extensions \o <<l.EndOfLife>>,
              1, 0)

\* Phase reporting End of Life from the end-of-life date itself on
Phase_EndOfLifeInclusive(l, asOf) ==
    IF asOf < l.FullSupport THEN LifecyclePhasePreGA
    ELSE IF asOf < l.Maintenance THEN LifecyclePhaseFullSupport
    ELSE IF asOf >= l.EndOfLife THEN LifecyclePhaseEndOfLife
    ELSE IF Len(l.Extensions) = 0 \/ asOf < l.Extensions[1]
         THEN LifecyclePhaseMaintenance
    ELSE ExtensionWalk(l, asOf, 1)

\* func (l LifecycleDates) Phase(asOf time.Time) LifecyclePhase
Phase(l, asOf) ==
    IF asOf < l.FullSupport THEN LifecyclePhasePreGA
    ELSE IF asOf < l.Maintenance THEN LifecyclePhaseFullSupport
    ELSE IF asOf > l.EndOfLife THEN LifecyclePhaseEndOfLife
    ELSE IF Len(l.Extensions) = 0 \/ asOf < l.Extensions[1]
         THEN LifecyclePhaseMaintenance
    ELSE ExtensionWalk(l, asOf, 1)

\* the value of lifecycle outside the phase runs
NoLifecycle ==
    [Dates |-> [FullSupport |-> 0, Maintenance |-> 0, Extensions |-> <<>>,
                EndOfLife |-> 0],
     AsOf |-> 0, Called |-> FALSE, Phase |-> LifeCyclePhaseUnknown]

\* a call of lifecycle.Dates.Phase(lifecycle.AsOf)
CallPhase ==
    /\ pc = "dates"
    /\ lifecycle' = [lifecycle EXCEPT
                        !.Called = TRUE,
                        !.Phase = Phase(lifecycle.Dates, lifecycle.AsOf)]
    /\ pc' = "phased"
    /\ UNCHANGED <<cfg, graph, errs, plan>>

\* a later call of lifecycle.Dates.Phase, with a later timestamp
AdvanceAsOf ==
    /\ pc \in {"phased", "advanced"}
    /\ \E t \in (lifecycle.AsOf + 1)..(MaxDate + 1) :
         lifecycle' = [lifecycle EXCEPT
                          !.AsOf = t,
                          !.Phase = Phase(lifecycle.Dates, t)]
    /\ pc' = "advanced"
    /\ UNCHANGED <<cfg, graph, errs, plan>>

\* calls of A.Compare(B), B.Compare(A), B.Compare(C) and A.Compare(C)
CallCompare ==
    /\ pc = "phases"
    /\ lifecycle' = [lifecycle EXCEPT
                        !.Called = "Compare",
                        !.AB = PhaseCompare(lifecycle.A, lifecycle.B),
                        !.BA = PhaseCompare(lifecycle.B, lifecycle.A),
                        !.BC = PhaseCompare(lifecycle.B, lifecycle.C),
                        !.AC = PhaseCompare(lifecycle.A, lifecycle.C)]
    /\ pc' = "compared"
    /\ UNCHANGED <<cfg, graph, errs, plan>>

\* a call of LifecycleExtensionPhase(I), and of String() on what it returned
CallLifecycleExtensionPhase ==
    /\ pc = "phases"
    /\ lifecycle' = [lifecycle EXCEPT
                        !.Called = "LifecycleExtensionPhase",
                        !.Panicked = LifecycleExtensionPhasePanics(lifecycle.I),
                        !.Extension = LifecycleExtensionPhase(lifecycle.I),
                        !.String =
                            IF LifecycleExtensionPhasePanics(lifecycle.I)
                            THEN <<>>
                            ELSE LifecyclePhaseString(
                                    LifecycleExtensionPhase(lifecycle.I))]
    /\ pc' = "extended"
    /\ UNCHANGED <<cfg, graph, errs, plan>>

----------------------------------------------------------------------------
(* Versions, MajorMinor, nodes *)

\* semver.Version.Compare on <<major, minor, patch>>
VersionCompare(a, b) ==
    IF a[1] # b[1] THEN CmpCompare(a[1], b[1])
    ELSE IF a[2] # b[2] THEN CmpCompare(a[2], b[2])
    ELSE CmpCompare(a[3], b[3])

\* semver.Version.LT
VersionLT(a, b) == VersionCompare(a, b) < 0

\* NewMajorMinorFromVersion
NewMajorMinorFromVersion(v) == <<v[1], v[2]>>

\* MajorMinor.Compare: lexicographic on (Major, Minor)
MajorMinorCompare(a, b) ==
    IF a[1] # b[1] THEN CmpCompare(a[1], b[1]) ELSE CmpCompare(a[2], b[2])

\* cmp.Compare on the package names used here
NameCompare(a, b) == IF a = b THEN 0 ELSE IF a = "a" THEN -1 ELSE 1

\* func (n *Node) Compare(other *Node) int: version, then name (not release)
NodeCompare(n, other) ==
    IF VersionCompare(n.Version, other.Version) # 0
    THEN VersionCompare(n.Version, other.Version)
    ELSE NameCompare(n.Name, other.Name)

\* func (n *Node) NVR(): "<name>.v<version>[_<release>]", the text hashed by ID()
NVR(n) == <<n.Name, n.Version, n.Release>>

\* a node as handed to NewGraph: LifecyclePhase and SupportedPlatformVersions
\* hold Go's zero values until buildEdges binds the node to its stream;
\* RequiresUpdatePlatformVersions is empty unless the caller has set it
NewNode(name, version, release, date) ==
    [Name |-> name, Version |-> version, Release |-> release,
     ReleaseDate |-> date,
     LifecyclePhase |-> 0,
     SupportedPlatformVersions |-> {},
     RequiresUpdatePlatformVersions |-> {}]

----------------------------------------------------------------------------
(* Orders produced by slices.SortedFunc over the graph's node map *)

RECURSIVE SortedSeqs(_, _)
\* all sequences that list every element of S exactly once and never place an
\* element after one it must precede; le holds the pairs <<a, b>> for which a
\* may come before b
SortedSeqs(S, le) ==
    IF S = {} THEN {<<>>}
    ELSE UNION {{<<m>> \o t : t \in SortedSeqs(S \ {m}, le)} :
                    m \in {m \in S : \A x \in S : <<m, x>> \in le}}

\* the results slices.SortedFunc may return for the node ids S under the
\* comparator Cmp: the iteration order of the node map is unspecified, so
\* elements that compare equal come out in any order
SortedFunc(S, Cmp(_, _)) ==
    SortedSeqs(S, {ab \in S \X S : Cmp(ab[1], ab[2]) <= 0})

----------------------------------------------------------------------------
(* Graph construction: graph.go *)

\* the value NewGraph returns together with an error
NoGraph ==
    [nodes |-> <<>>, edges |-> {}, weight |-> <<>>, paths |-> <<>>, heads |-> {}]

\* util.KeySlice(cfg.Streams, s.Version): a later stream of the list replaces
\* an earlier one with the same MajorMinor
KeySlice(s) ==
    [k \in {s[i].Version : i \in DOMAIN s} |->
        s[CHOOSE i \in DOMAIN s :
            /\ s[i].Version = k
            /\ \A j \in DOMAIN s : j > i => s[j].Version # k]]

\* wg.AddNode for every node of cfg.Nodes: the graph's node map, keyed by ID()
AddNodes(nodeSet) ==
    [id \in {NVR(n) : n \in nodeSet} |-> CHOOSE n \in nodeSet : NVR(n) = id]

\* ReleaseDateCompare sorting the latest release first
ReleaseDateCompare_Descending(a, b) == CmpCompare(b.ReleaseDate, a.ReleaseDate)

\* the comparator of nodesByReleaseDate
ReleaseDateCompare(a, b) == CmpCompare(a.ReleaseDate, b.ReleaseDate)

\* EdgeAdmitted without its "Don't update to a lower version" check
EdgeAdmitted_NoLowerVersionCheck(from, to, minimumUpdateVersion) ==
    /\ ~VersionLT(from.Version, minimumUpdateVersion)
    /\ ~(from.Version[1] # to.Version[1])

\* EdgeAdmitted without its "Don't update from a version lower than the
\* minimum update version" check
EdgeAdmitted_NoMinimumUpdateCheck(from, to, minimumUpdateVersion) ==
    /\ ~(NodeCompare(from, to) > 0)
    /\ ~(from.Version[1] # to.Version[1])

\* the three "continue" conditions of initializeEdgesTo, negated: the edge
\* from -> to is set
EdgeAdmitted(from, to, minimumUpdateVersion) ==
    /\ ~(NodeCompare(from, to) > 0)
    /\ ~VersionLT(from.Version, minimumUpdateVersion)
    /\ ~(from.Version[1] # to.Version[1])

\* initializeEdgesTo setting the admissible edges in both directions
initializeEdgesTo_BothDirections(nodes, froms, to, minimumUpdateVersion) ==
    {<<froms[k], to>> : k \in {k \in DOMAIN froms :
        EdgeAdmitted(nodes[froms[k]], nodes[to], minimumUpdateVersion)}}
    \cup
    {<<to, froms[k]>> : k \in {k \in DOMAIN froms :
        EdgeAdmitted(nodes[to], nodes[froms[k]], minimumUpdateVersion)}}

\* func (g *Graph) initializeEdgesTo(froms, to, minimumUpdateVersion): the
\* edges it sets (each with the placeholder weight 1)
initializeEdgesTo(nodes, froms, to, minimumUpdateVersion) ==
    {<<froms[k], to>> : k \in {k \in DOMAIN froms :
        EdgeAdmitted(nodes[froms[k]], nodes[to], minimumUpdateVersion)}}

\* the node field RequiresUpdatePlatformVersions read by functionalOnPlatforms,
\* taken from the matching stream.  buildEdges does not assign it: a node has
\* it when it is handed to NewGraph, and keeps it
BindRequiresUpdate(n, stream) ==
    [n EXCEPT
        !.RequiresUpdatePlatformVersions = stream.RequiresUpdatePlatformVersions]

\* the nodes handed to NewGraph in the planner runs: every node of a version
\* with a stream carries the RequiresUpdatePlatformVersions of that stream
NodesWithRequiresUpdate(nodes, streams) ==
    {IF \E i \in DOMAIN streams :
            streams[i].Version = NewMajorMinorFromVersion(n.Version)
     THEN BindRequiresUpdate(n,
            streams[CHOOSE i \in DOMAIN streams :
                      streams[i].Version = NewMajorMinorFromVersion(n.Version)])
     ELSE n : n \in nodes}

\* the assignments buildEdges makes to the node it binds to its stream
BindNode(n, stream, asOf) ==
    [n EXCEPT
        !.SupportedPlatformVersions = stream.SupportedPlatformVersions,
        !.LifecyclePhase = Phase(stream.LifecycleDates, asOf)]

\* whether buildEdges skips a bound node (no edges, not a later source)
SkipPreGA(includePreGA, phase) ==
    ~includePreGA /\ phase = LifecyclePhasePreGA

\* BuildStep recording only the first node without a stream
BuildStep_FirstErrorOnly(c, streamsByMajorMinor, st, to) ==
    LET toMM == NewMajorMinorFromVersion(st.nodes[to].Version)
    IN  IF toMM \notin DOMAIN streamsByMajorMinor
        THEN [st EXCEPT !.errs = IF @ = {} THEN {to} ELSE @]
        ELSE
          LET stream == streamsByMajorMinor[toMM]
              boundTo == BindNode(st.nodes[to], stream, c.AsOf)
          IN  IF SkipPreGA(c.IncludePreGA, boundTo.LifecyclePhase)
              THEN [st EXCEPT !.nodes[to] = boundTo]
              ELSE [st EXCEPT
                      !.nodes[to] = boundTo,
                      !.edges = @ \cup initializeEdgesTo(
                                  [st.nodes EXCEPT ![to] = boundTo],
                                  st.froms, to,
                                  stream.MinimumUpdateVersion),
                      !.froms = Append(@, to)]

\* one iteration of the loop of buildEdges, for the node `to`;
\* st = [nodes, edges, froms, errs]
BuildStep(c, streamsByMajorMinor, st, to) ==
    LET toMM == NewMajorMinorFromVersion(st.nodes[to].Version)
    IN  IF toMM \notin DOMAIN streamsByMajorMinor
        THEN [st EXCEPT !.errs = @ \cup {to}]
        ELSE
          LET stream == streamsByMajorMinor[toMM]
              boundTo == BindNode(st.nodes[to], stream, c.AsOf)
          IN  IF SkipPreGA(c.IncludePreGA, boundTo.LifecyclePhase)
              THEN [st EXCEPT !.nodes[to] = boundTo]
              ELSE [st EXCEPT
                      !.nodes[to] = boundTo,
                      !.edges = @ \cup initializeEdgesTo(
                                  [st.nodes EXCEPT ![to] = boundTo],
                                  st.froms, to,
                                  stream.MinimumUpdateVersion),
                      !.froms = Append(@, to)]

RECURSIVE BuildLoop(_, _, _, _, _)
\* the loop of buildEdges over nodesByReleaseDate, from index i on
BuildLoop(c, streamsByMajorMinor, order, i, st) ==
    IF i > Len(order) THEN st
    ELSE BuildLoop(c, streamsByMajorMinor, order, i + 1,
                   BuildStep(c, streamsByMajorMinor, st, order[i]))

\* func (g *Graph) buildEdges(cfg GraphConfig): the state after its loop
buildEdges(c, nodes0, order) ==
    BuildLoop(c, KeySlice(c.Streams), order, 1,
              [nodes |-> nodes0, edges |-> {}, froms |-> <<>>, errs |-> {}])

\* the comparator of bestNodes in assignEdgeWeights: better phase first,
\* then higher Node.Compare first
BestCompare(a, b) ==
    IF PhaseCompare(b.LifecyclePhase, a.LifecyclePhase) # 0
    THEN PhaseCompare(b.LifecyclePhase, a.LifecyclePhase)
    ELSE NodeCompare(b, a)

\* const delta = 0.01, in hundredths
delta == 1

\* TierStartRank leaving no gap between tiers: the ranks simply continue
TierStartRank_NoGap(rank, nextLifecyclePhaseRank) == rank

\* the rank a tier starts from when the walk of assignEdgeWeights enters it
TierStartRank(rank, nextLifecyclePhaseRank) == nextLifecyclePhaseRank

RECURSIVE RankWalk(_, _, _, _, _, _, _)
\* the loop of assignEdgeWeights over bestNodes, from index i on; the result
\* maps every node id to the rank given to its incoming edges
RankWalk(nodes, bestNodes, i, rank, nextLifecyclePhaseRank, curLifecyclePhase, acc) ==
    IF i > Len(bestNodes) THEN acc
    ELSE
      LET to == bestNodes[i]
          enter == curLifecyclePhase # nodes[to].LifecyclePhase
          rank1 == IF enter THEN TierStartRank(rank, nextLifecyclePhaseRank)
                   ELSE rank
          next1 == IF enter THEN 0 ELSE nextLifecyclePhaseRank
          rank2 == rank1 + delta
          next2 == next1 + rank2
      IN  RankWalk(nodes, bestNodes, i + 1, rank2, next2,
                   nodes[to].LifecyclePhase, acc @@ (to :> rank2))

\* assignEdgeWeights setting the weights of a node's incoming edges before
\* "rank += delta" instead of after it
assignEdgeWeights_BeforeIncrement(nodes, edges, bestNodes) ==
    LET rankOf == RankWalk(nodes, bestNodes, 1, 0, 0, LifeCyclePhaseUnknown, <<>>)
    IN  [e \in edges |-> rankOf[e[2]] - delta]

\* func (g *Graph) assignEdgeWeights(): every edge gets the rank of its target
assignEdgeWeights(nodes, edges, bestNodes) ==
    LET rankOf == RankWalk(nodes, bestNodes, 1, 0, 0, LifeCyclePhaseUnknown, <<>>)
    IN  [e \in edges |-> rankOf[e[2]]]

RECURSIVE ExtendPaths(_, _, _)
\* all simple paths that extend the paths of frontier along edges, added to acc
ExtendPaths(edges, frontier, acc) ==
    IF frontier = {} THEN acc
    ELSE
      LET longer == {Append(q[1], q[2][2]) :
                        q \in {q \in frontier \X edges :
                                 /\ q[2][1] = q[1][Len(q[1])]
                                 /\ \A i \in DOMAIN q[1] : q[1][i] # q[2][2]}}
      IN  ExtendPaths(edges, longer, acc \cup longer)

\* all simple paths of the graph, as sequences of one or more node ids
SimplePaths(ids, edges) ==
    ExtendPaths(edges, {<<n>> : n \in ids}, {<<n>> : n \in ids})

RECURSIVE PathWeight(_, _)
\* the sum of the edge weights along the path p
PathWeight(weight, p) ==
    IF Len(p) < 2 THEN 0
    ELSE weight[<<p[1], p[2]>>] + PathWeight(weight, Tail(p))

\* the paths of least weight among ps
Lightest(weight, ps) ==
    {p \in ps : \A q \in ps : PathWeight(weight, p) <= PathWeight(weight, q)}

\* path.DijkstraAllPaths(wg): for every pair of nodes the shortest paths
\* between them (none when the target is unreachable)
DijkstraAllPaths(ids, edges, weight) ==
    LET all == SimplePaths(ids, edges)
    IN  [uv \in ids \X ids |->
            Lightest(weight,
                {p \in all : p[1] = uv[1] /\ p[Len(p)] = uv[2]})]

\* isHead: no outgoing edge
isHead(edges, n) == \A e \in edges : e[1] # n

\* heads of NewGraph: g.NodesMatching(isHead)
Heads(nodes, edges) == {n \in DOMAIN nodes : isHead(edges, n)}

\* func NewGraph(cfg GraphConfig) (*Graph, error)
NewGraph ==
    /\ pc = "config"
    /\ \E nodes0 \in {AddNodes(cfg.Nodes)} :
       \E order \in SortedFunc(DOMAIN nodes0,
                    LAMBDA a, b : ReleaseDateCompare(nodes0[a], nodes0[b])) :
       \E st \in {buildEdges(cfg, nodes0, order)} :
         IF st.errs # {}
         THEN /\ graph' = NoGraph
              /\ errs' = st.errs
              /\ pc' = "failed"
         ELSE \E bestNodes \in SortedFunc(DOMAIN st.nodes,
                    LAMBDA a, b : BestCompare(st.nodes[a], st.nodes[b])) :
              \E w \in {assignEdgeWeights(st.nodes, st.edges, bestNodes)} :
                /\ graph' = [nodes |-> st.nodes,
                             edges |-> st.edges,
                             weight |-> w,
                             paths |-> DijkstraAllPaths(DOMAIN st.nodes, st.edges, w),
                             heads |-> Heads(st.nodes, st.edges)]
                /\ errs' = {}
                /\ pc' = "built"
    /\ UNCHANGED <<cfg, plan, lifecycle>>

----------------------------------------------------------------------------
(* The three-phase platform update planner: update_plan.go *)

\* the value of plan before PlanOpenShiftUpdate has been called.  plan
\* records the call (From, To, Froms) and what it returned: Nil says that the
\* returned *PlatformUpdate is nil, Error is the returned error (<<>> is nil),
\* UpdatePaths keeps for every from node the sorted updatePaths list of its run
NoPlan ==
    [From |-> <<0, 0>>, To |-> <<0, 0>>, Froms |-> <<>>, Nil |-> TRUE,
     NodeUpdates |-> <<>>, UpdatePaths |-> <<>>, Error |-> <<>>]

\* validateOpenShiftUpdate accepting equal from and to versions
validateOpenShiftUpdate_SameAllowed(from, to) ==
    LET diff == MajorMinorCompare(from, to)
        maxTo == IF from[2] % 2 = 0 THEN <<from[1], from[2] + 2>>
                 ELSE <<from[1], from[2] + 1>>
    IN  IF diff = 0
        THEN <<>>
        ELSE IF diff > 0
        THEN <<"downgrading is not supported", from, to>>
        ELSE IF from[1] # to[1]
        THEN <<"updating to another major version is not supported", from[1], to[1]>>
        ELSE IF MajorMinorCompare(to, maxTo) > 0
        THEN <<"furthest supported update is to", from, maxTo>>
        ELSE <<>>

\* validateOpenShiftUpdate allowing one minor step from every platform version
validateOpenShiftUpdate_OneStepOnly(from, to) ==
    LET diff == MajorMinorCompare(from, to)
        maxTo == <<from[1], from[2] + 1>>
    IN  IF diff = 0
        THEN <<"platform update requires different from version and to version", from, to>>
        ELSE IF diff > 0
        THEN <<"downgrading is not supported", from, to>>
        ELSE IF from[1] # to[1]
        THEN <<"updating to another major version is not supported", from[1], to[1]>>
        ELSE IF MajorMinorCompare(to, maxTo) > 0
        THEN <<"furthest supported update is to", from, maxTo>>
        ELSE <<>>

\* validateOpenShiftUpdate rejecting nothing but equal versions and downgrades
validateOpenShiftUpdate_DowngradeOnly(from, to) ==
    LET diff == MajorMinorCompare(from, to)
    IN  IF diff = 0
        THEN <<"platform update requires different from version and to version", from, to>>
        ELSE IF diff > 0
        THEN <<"downgrading is not supported", from, to>>
        ELSE <<>>

\* func validateOpenShiftUpdate(from, to MajorMinor) error: <<>> is nil, an
\* error is its message followed by the values formatted into it
validateOpenShiftUpdate(from, to) ==
    LET diff == MajorMinorCompare(from, to)
        maxTo == IF from[2] % 2 = 0 THEN <<from[1], from[2] + 2>>
                 ELSE <<from[1], from[2] + 1>>
    IN  IF diff = 0
        THEN <<"platform update requires different from version and to version", from, to>>
        ELSE IF diff > 0
        THEN <<"downgrading is not supported", from, to>>
        ELSE IF from[1] # to[1]
        THEN <<"updating to another major version is not supported", from[1], to[1]>>
        ELSE IF MajorMinorCompare(to, maxTo) > 0
        THEN <<"furthest supported update is to", from, maxTo>>
        ELSE <<>>

\* TraversedPlatforms listing only the two ends of the update
TraversedPlatforms_EndpointsOnly(fromPlatform, toPlatform) ==
    <<fromPlatform, toPlatform>>

RECURSIVE TraversedLoop(_, _, _)
\* "for curPlatform := fromPlatform; curPlatform.Compare(toPlatform) <= 0;
\* curPlatform.Minor++" of PlanOpenShiftUpdate
TraversedLoop(curPlatform, toPlatform, traversedPlatforms) ==
    IF MajorMinorCompare(curPlatform, toPlatform) <= 0
    THEN TraversedLoop(<<curPlatform[1], curPlatform[2] + 1>>, toPlatform,
                       Append(traversedPlatforms, curPlatform))
    ELSE traversedPlatforms

\* the traversedPlatforms list PlanOpenShiftUpdate builds
TraversedPlatforms(fromPlatform, toPlatform) ==
    TraversedLoop(fromPlatform, toPlatform, <<>>)

\* supportedOnPlatforms accepting platforms the node is merely functional on
supportedOnPlatforms_Functional(platforms, n) ==
    platforms \subseteq
        (n.SupportedPlatformVersions \cup n.RequiresUpdatePlatformVersions)

\* supportedOnPlatforms(platforms)(g, n)
supportedOnPlatforms(platforms, n) ==
    platforms \subseteq n.SupportedPlatformVersions

\* functionalOnPlatforms asking for one of the platforms instead of all
functionalOnPlatforms_Any(platforms, n) ==
    platforms \cap
        (n.SupportedPlatformVersions \cup n.RequiresUpdatePlatformVersions) # {}

\* functionalOnPlatforms(platforms)(g, n)
functionalOnPlatforms(platforms, n) ==
    platforms \subseteq
        (n.SupportedPlatformVersions \cup n.RequiresUpdatePlatformVersions)

\* PackageNodes(pkgName)(g, node)
PackageNodes(pkgName, node) == node.Name = pkgName

\* the nodes `to` of the candidate loop whose path weight is not +Inf
Terminals(g, from, toPlatformSet) ==
    {to \in DOMAIN g.nodes :
        /\ PackageNodes(g.nodes[from].Name, g.nodes[to])
        /\ supportedOnPlatforms(toPlatformSet, g.nodes[to])
        /\ g.paths[<<from, to>>] # {}}

\* the updatePaths lists the candidate loop may collect: for every terminal
\* g.Paths().Between(from, to) returns one of the shortest paths
UpdatePathChoices(g, from, terminals) ==
    {{pick[to] : to \in terminals} :
        pick \in {f \in [terminals -> UNION {g.paths[<<from, to>>] : to \in terminals}] :
                    \A to \in terminals : f[to] \in g.paths[<<from, to>>]}}

\* UpdatePathCompare ordering the heaviest path first
UpdatePathCompare_Descending(weight, a, b) ==
    IF CmpCompare(PathWeight(weight, b), PathWeight(weight, a)) # 0
    THEN CmpCompare(PathWeight(weight, b), PathWeight(weight, a))
    ELSE CmpCompare(Len(a), Len(b))

\* the comparator of the sort of updatePaths: weight, then number of nodes
UpdatePathCompare(weight, a, b) ==
    IF CmpCompare(PathWeight(weight, a), PathWeight(weight, b)) # 0
    THEN CmpCompare(PathWeight(weight, a), PathWeight(weight, b))
    ELSE CmpCompare(Len(a), Len(b))

\* the nodes appended by a loop "for _, n := range p { if !functional { break };
\* append }": the longest prefix of p functional on platforms
FunctionalPrefix(g, p, platforms) ==
    SubSeq(p, 1,
        CHOOSE k \in 0..Len(p) :
            /\ \A i \in 1..k : functionalOnPlatforms(platforms, g.nodes[p[i]])
            /\ k = Len(p) \/ ~functionalOnPlatforms(platforms, g.nodes[p[k + 1]]))

\* the body of the loop over updatePaths for the candidate p: the node update
\* it returns, or Error "continue" when it moves on to the next candidate
TryUpdatePath(g, from, p, traversedPlatforms) ==
    LET fromPlatformSet == {traversedPlatforms[1]}
        toPlatformSet == {traversedPlatforms[Len(traversedPlatforms)]}
        traversedPlatformsSet ==
            {traversedPlatforms[i] : i \in DOMAIN traversedPlatforms}
        Before == FunctionalPrefix(g, p, fromPlatformSet)
    IN  IF Before = <<>>
        THEN [From |-> from, Before |-> <<>>, After |-> <<>>,
              Error |-> "panic: index out of range"]
        ELSE
          LET spanNode == Before[Len(Before)]
              After == <<spanNode>> \o
                       FunctionalPrefix(g, SubSeq(p, Len(Before) + 1, Len(p)),
                                        toPlatformSet)
          IN  IF ~functionalOnPlatforms(traversedPlatformsSet, g.nodes[spanNode])
              THEN [From |-> from, Before |-> Before, After |-> <<>>,
                    Error |-> "continue"]
              ELSE IF Len(Before) = Len(p)
              THEN [From |-> from, Before |-> Before, After |-> <<>>, Error |-> ""]
              ELSE IF Len(Before) + Len(After) - 1 # Len(p)
              THEN [From |-> from, Before |-> Before, After |-> After,
                    Error |-> "continue"]
              ELSE [From |-> from, Before |-> Before, After |-> After, Error |-> ""]

RECURSIVE WalkUpdatePaths(_, _, _, _, _)
\* the loop over the sorted updatePaths, from index i on
WalkUpdatePaths(g, from, updatePaths, i, traversedPlatforms) ==
    IF i > Len(updatePaths)
    THEN [From |-> from, Before |-> <<>>, After |-> <<>>,
          Error |-> "No update paths from this version coincide with the support along the platform update path"]
    ELSE
      LET pnu == TryUpdatePath(g, from, updatePaths[i], traversedPlatforms)
      IN  IF pnu.Error = "continue"
          THEN WalkUpdatePaths(g, from, updatePaths, i + 1, traversedPlatforms)
          ELSE pnu

\* func (g *Graph) platformNodeUpdatePathFrom(from, traversedPlatforms): the
\* runs it may take, each the updatePaths list after its sort (empty when the
\* call returns before collecting it) with the node update returned
platformNodeUpdatePathFrom(g, from, traversedPlatforms) ==
    IF traversedPlatforms[1] \notin g.nodes[from].SupportedPlatformVersions
    THEN {[UpdatePaths |-> <<>>,
           Update |->
             [From |-> from, Before |-> <<>>, After |-> <<>>,
              Error |-> "This version is not supported on the current platform version"]]}
    ELSE
      LET toPlatformSet == {traversedPlatforms[Len(traversedPlatforms)]}
          choices == UpdatePathChoices(g, from, Terminals(g, from, toPlatformSet))
      IN  {[UpdatePaths |-> updatePaths,
            Update |-> WalkUpdatePaths(g, from, updatePaths, 1, traversedPlatforms)] :
              updatePaths \in UNION {
                  SortedFunc(c, LAMBDA a, b : UpdatePathCompare(g.weight, a, b)) :
                      c \in choices}}

RECURSIVE NodeUpdates(_, _, _, _)
\* the runs of the loop over froms, from index i on: one run of
\* platformNodeUpdatePathFrom for every from node
NodeUpdates(g, froms, i, traversedPlatforms) ==
    IF i > Len(froms) THEN {<<>>}
    ELSE {<<run>> \o rest :
            run \in platformNodeUpdatePathFrom(g, froms[i], traversedPlatforms),
            rest \in NodeUpdates(g, froms, i + 1, traversedPlatforms)}

\* the platform versions the planner runs are asked about
PlanPlatforms == {<<4, 14>>, <<4, 15>>, <<4, 16>>}

\* the froms lists of the planner runs: nodes of the graph
FromsInputs(g) ==
    UNION {[1..n -> DOMAIN g.nodes] : n \in 0..MaxFroms}

\* PlanOpenShiftUpdate returning, when the validation fails, a plan that
\* carries the validation error and an erroneous node update for every from
PlanOpenShiftUpdateOver_NoAbort(calls) ==
    /\ pc = "built"
    /\ \E froms \in FromsInputs(graph) :
       \E call \in calls :
       \E fromPlatform \in {call[1]}, toPlatform \in {call[2]} :
       \E err \in {validateOpenShiftUpdate(fromPlatform, toPlatform)} :
         IF err # <<>>
         THEN plan' = [From |-> fromPlatform, To |-> toPlatform,
                       Froms |-> froms, Nil |-> FALSE,
                       NodeUpdates |->
                           [i \in DOMAIN froms |->
                               [From |-> froms[i], Before |-> <<>>, After |-> <<>>,
                                Error |-> "platform update is not valid"]],
                       UpdatePaths |-> [i \in DOMAIN froms |-> <<>>],
                       Error |-> err]
         ELSE \E runs \in NodeUpdates(graph, froms, 1,
                              TraversedPlatforms(fromPlatform, toPlatform)) :
                plan' = [From |-> fromPlatform, To |-> toPlatform,
                         Froms |-> froms, Nil |-> FALSE,
                         NodeUpdates |-> [i \in DOMAIN runs |-> runs[i].Update],
                         UpdatePaths |->
                             [i \in DOMAIN runs |-> runs[i].UpdatePaths],
                         Error |-> <<>>]
    /\ pc' = "planned"
    /\ UNCHANGED <<cfg, graph, errs, lifecycle>>

\* func (g *Graph) PlanOpenShiftUpdate(froms, fromPlatform, toPlatform), called
\* with the pair (fromPlatform, toPlatform) drawn from calls
PlanOpenShiftUpdateOver(calls) ==
    /\ pc = "built"
    /\ \E froms \in FromsInputs(graph) :
       \E call \in calls :
       \E fromPlatform \in {call[1]}, toPlatform \in {call[2]} :
       \E err \in {validateOpenShiftUpdate(fromPlatform, toPlatform)} :
         IF err # <<>>
         THEN plan' = [From |-> fromPlatform, To |-> toPlatform,
                       Froms |-> froms, Nil |-> TRUE,
                       NodeUpdates |-> <<>>, UpdatePaths |-> <<>>,
                       Error |-> err]
         ELSE \E runs \in NodeUpdates(graph, froms, 1,
                              TraversedPlatforms(fromPlatform, toPlatform)) :
                plan' = [From |-> fromPlatform, To |-> toPlatform,
                         Froms |-> froms, Nil |-> FALSE,
                         NodeUpdates |-> [i \in DOMAIN runs |-> runs[i].Update],
                         UpdatePaths |->
                             [i \in DOMAIN runs |-> runs[i].UpdatePaths],
                         Error |-> <<>>]
    /\ pc' = "planned"
    /\ UNCHANGED <<cfg, graph, errs, lifecycle>>

\* the calls of the planner runs: the updates among PlanPlatforms (the calls
\* that validateOpenShiftUpdate refuses are those of the platform runs)
PlanCalls ==
    {call \in PlanPlatforms \X PlanPlatforms :
        MajorMinorCompare(call[1], call[2]) < 0}

\* PlanOpenShiftUpdate in the planner runs
PlanOpenShiftUpdate == PlanOpenShiftUpdateOver(PlanCalls)

(* PlanOpenShiftUpdate step by step, for the termination runs: the call, the
   validation, every iteration of the loop that enumerates the traversed
   platforms, and the loop over froms with the return.  plan.CurPlatform and
   plan.TraversedPlatforms are the loop variable and the list built so far. *)

\* a call PlanOpenShiftUpdate(froms, fromPlatform, toPlatform)
PlanCall(platforms) ==
    /\ pc = "built"
    /\ \E froms \in FromsInputs(graph) :
       \E fromPlatform \in platforms, toPlatform \in platforms :
         plan' = [From |-> fromPlatform, To |-> toPlatform, Froms |-> froms,
                  Nil |-> TRUE, NodeUpdates |-> <<>>, UpdatePaths |-> <<>>,
                  Error |-> <<>>,
                  CurPlatform |-> fromPlatform, TraversedPlatforms |-> <<>>]
    /\ pc' = "validating"
    /\ UNCHANGED <<cfg, graph, errs, lifecycle>>

\* "if err := validateOpenShiftUpdate(...); err != nil { return nil, err }"
PlanValidate ==
    /\ pc = "validating"
    /\ \E err \in {validateOpenShiftUpdate(plan.From, plan.To)} :
         IF err # <<>>
         THEN /\ plan' = [plan EXCEPT !.Error = err]
              /\ pc' = "planned"
         ELSE /\ plan' = plan
              /\ pc' = "enumerating"
    /\ UNCHANGED <<cfg, graph, errs, lifecycle>>

\* one iteration of "for curPlatform := fromPlatform;
\* curPlatform.Compare(toPlatform) <= 0; curPlatform.Minor++"; the runs follow
\* the loop while curPlatform.Minor is at most MaxPlatformMinor
PlanEnumerate ==
    /\ pc = "enumerating"
    /\ MajorMinorCompare(plan.CurPlatform, plan.To) <= 0
    /\ plan.CurPlatform[2] <= MaxPlatformMinor
    /\ plan' = [plan EXCEPT
                   !.TraversedPlatforms = Append(@, plan.CurPlatform),
                   !.CurPlatform = <<@[1], @[2] + 1>>]
    /\ UNCHANGED <<cfg, pc, graph, errs, lifecycle>>

\* the exit of the enumeration, the loop over froms and the return
PlanReturn ==
    /\ pc = "enumerating"
    /\ MajorMinorCompare(plan.CurPlatform, plan.To) > 0
    /\ \E runs \in NodeUpdates(graph, plan.Froms, 1, plan.TraversedPlatforms) :
         plan' = [plan EXCEPT
                    !.Nil = FALSE,
                    !.NodeUpdates = [i \in DOMAIN runs |-> runs[i].Update],
                    !.UpdatePaths = [i \in DOMAIN runs |-> runs[i].UpdatePaths]]
    /\ pc' = "planned"
    /\ UNCHANGED <<cfg, graph, errs, lifecycle>>

RECURSIVE SortedByFromName(_, _)
\* the order in which "slices.SortFunc(pu.NodeUpdates, ...)" leaves the first i
\* node updates: their indices, sorted by From.Name; slices this short are
\* sorted by insertion, which keeps updates of one name in their order
SortedByFromName(nodeUpdates, i) ==
    IF i = 0 THEN <<>>
    ELSE LET prev == SortedByFromName(nodeUpdates, i - 1)
             n == Cardinality({k \in DOMAIN prev :
                     NameCompare(nodeUpdates[prev[k]].From[1],
                                 nodeUpdates[i].From[1]) <= 0})
         IN  SubSeq(prev, 1, n) \o <<i>> \o SubSeq(prev, n + 1, Len(prev))

\* func (pu *PlatformUpdate) PrettyReport() on the returned plan: it sorts
\* pu.NodeUpdates in place by From.Name before it writes the report; called
\* on the nil plan of a failed validation (as main does) it dereferences nil
PrettyReport ==
    /\ pc \in {"planned", "reported"}
    /\ IF plan.Nil
       THEN /\ plan' = plan
            /\ pc' = "panic"
       ELSE /\ \E order \in {SortedByFromName(plan.NodeUpdates,
                                               Len(plan.NodeUpdates))} :
                 plan' = [plan EXCEPT
                            !.NodeUpdates =
                                [i \in DOMAIN order |-> plan.NodeUpdates[order[i]]],
                            !.UpdatePaths =
                                [i \in DOMAIN order |-> plan.UpdatePaths[order[i]]]]
            /\ pc' = "reported"
    /\ UNCHANGED <<cfg, graph, errs, lifecycle>>

----------------------------------------------------------------------------
(* Inputs of the graph-construction runs *)

Names == {"a", "b"}
Releases == {"", "1"}
Versions == {<<1, 0, 0>>, <<1, 1, 0>>, <<2, 0, 0>>}

\* the as-of timestamps of the runs
AsOfTimes == {3}

\* lifecycle dates that are, at the as-of timestamp 3, in Pre-GA, Full Support, Maintenance,
\* EUS-1 and End of Life
DatesPreGA == [FullSupport |-> 4, Maintenance |-> 5, Extensions |-> <<>>, EndOfLife |-> 6]
DatesFull == [FullSupport |-> 1, Maintenance |-> 5, Extensions |-> <<>>, EndOfLife |-> 6]
DatesMaintenance == [FullSupport |-> 1, Maintenance |-> 2, Extensions |-> <<>>, EndOfLife |-> 6]
DatesExtension == [FullSupport |-> 1, Maintenance |-> 2, Extensions |-> <<3>>, EndOfLife |-> 6]
DatesEndOfLife == [FullSupport |-> 1, Maintenance |-> 2, Extensions |-> <<>>, EndOfLife |-> 2]

\* a stream list of zero or one VersionStream for the MajorMinor mm
StreamOptions(mm, dates, minimums, supported, requires) ==
    {<<>>} \cup
    {<<[Version |-> mm, MinimumUpdateVersion |-> mu, LifecycleDates |-> ld,
        SupportedPlatformVersions |-> sp,
        RequiresUpdatePlatformVersions |-> ru]>> :
        ld \in dates, mu \in minimums, sp \in supported, ru \in requires}

\* node lists of at most maxN nodes with distinct identities drawn from ids
NodeSets(ids, maxDate, maxN) ==
    UNION {
      {{NewNode(k[1], k[2], k[3], d[k]) : k \in K} : d \in [K -> 1..maxDate]} :
        K \in {K \in SUBSET ids : Cardinality(K) <= maxN}}

\* the identities of the construction runs: package "a" in every version,
\* rebuilt with a release suffix in major version 1, and package "b" in major
\* version 1
ConstructionIds ==
    ({"a"} \X Versions \X {""})
    \cup ({"a"} \X {v \in Versions : v[1] = 1} \X (Releases \ {""}))
    \cup ((Names \ {"a"}) \X {v \in Versions : v[1] = 1} \X {""})

ConstructionStreams ==
    {s10 \o s11 \o s20 :
        s10 \in StreamOptions(<<1, 0>>,
                    {DatesFull, DatesMaintenance, DatesEndOfLife},
                    {<<1, 0, 0>>}, {{<<4, 14>>}}, {{}}) \ {<<>>},
        s11 \in StreamOptions(<<1, 1>>,
                    {DatesPreGA, DatesFull, DatesEndOfLife},
                    {<<1, 0, 0>>, <<1, 1, 0>>}, {{<<4, 14>>}}, {{}}),
        s20 \in StreamOptions(<<2, 0>>, {DatesFull},
                    {<<1, 0, 0>>}, {{<<4, 14>>}}, {{}}) \ {<<>>}}

Init ==
    /\ cfg \in [Streams : ConstructionStreams,
                Nodes : NodeSets(ConstructionIds, MaxReleaseDate, MaxNodes),
                AsOf : AsOfTimes,
                IncludePreGA : BOOLEAN]
    /\ pc = "config"
    /\ graph = NoGraph
    /\ errs = {}
    /\ plan = NoPlan
    /\ lifecycle = NoLifecycle

Next == NewGraph

Spec == Init /\ [][Next]_vars

----------------------------------------------------------------------------
(* Inputs of the weight runs: one package, three streams in any of the
   lifecycle phases, nodes released in any order *)

WeightVersions ==
    {<<1, 0, 0>>, <<1, 0, 1>>, <<1, 1, 0>>, <<1, 2, 0>>, <<1, 2, 1>>}

WeightIds == {"a"} \X WeightVersions \X {""}

WeightStreams ==
    {s10 \o s11 \o s12 :
        s10 \in StreamOptions(<<1, 0>>,
                    {DatesFull, DatesMaintenance, DatesExtension, DatesEndOfLife},
                    {<<1, 0, 0>>}, {{<<4, 14>>}}, {{}}) \ {<<>>},
        s11 \in StreamOptions(<<1, 1>>,
                    {DatesFull, DatesMaintenance, DatesEndOfLife},
                    {<<1, 0, 0>>}, {{<<4, 14>>}}, {{}}) \ {<<>>},
        s12 \in StreamOptions(<<1, 2>>,
                    {DatesFull, DatesMaintenance, DatesPreGA},
                    {<<1, 0, 0>>}, {{<<4, 14>>}}, {{}}) \ {<<>>}}

InitWeights ==
    /\ cfg \in [Streams : WeightStreams,
                Nodes : NodeSets(WeightIds, MaxReleaseDate, MaxWeightNodes),
                AsOf : AsOfTimes,
                IncludePreGA : BOOLEAN]
    /\ pc = "config"
    /\ graph = NoGraph
    /\ errs = {}
    /\ plan = NoPlan
    /\ lifecycle = NoLifecycle

NextWeights == NewGraph

SpecWeights == InitWeights /\ [][NextWeights]_vars

----------------------------------------------------------------------------
(* Inputs of the planner runs: package "a" in three streams whose supported
   and requires-update platform sets vary, and one node of package "b" *)

PlanIds ==
    {<<"a", <<1, 0, 0>>, "">>, <<"a", <<1, 0, 1>>, "">>, <<"a", <<1, 1, 0>>, "">>,
     <<"a", <<1, 2, 0>>, "">>, <<"b", <<1, 1, 0>>, "">>}

\* release timestamps of the planner runs: patch and minor releases follow
\* 1.0.0, and 1.0.1 is released together with the 1.1.0 builds
PlanReleaseDate(id) ==
    IF id[2] = <<1, 0, 0>> THEN 1 ELSE IF id[2] = <<1, 2, 0>> THEN 3 ELSE 2

PlanNodeSets ==
    {{NewNode(k[1], k[2], k[3], PlanReleaseDate(k)) : k \in K} :
        K \in {K \in SUBSET PlanIds : Cardinality(K) <= MaxPlanNodes}}

PlanStreams ==
    {s10 \o s11 \o s12 :
        s10 \in StreamOptions(<<1, 0>>, {DatesFull}, {<<1, 0, 0>>},
                    {{<<4, 14>>}, {<<4, 14>>, <<4, 15>>},
                     {<<4, 14>>, <<4, 15>>, <<4, 16>>}},
                    {{}, {<<4, 16>>}}) \ {<<>>},
        s11 \in StreamOptions(<<1, 1>>, {DatesFull, DatesMaintenance},
                    {<<1, 0, 0>>},
                    {{<<4, 14>>, <<4, 15>>}, {<<4, 15>>, <<4, 16>>}},
                    {{}, {<<4, 14>>}, {<<4, 16>>}}) \ {<<>>},
        s12 \in StreamOptions(<<1, 2>>, {DatesFull},
                    {<<1, 0, 0>>, <<1, 1, 0>>},
                    {{<<4, 16>>}, {<<4, 15>>, <<4, 16>>}}, {{}}) \ {<<>>}}

InitPlan ==
    /\ \E streams \in PlanStreams, nodes \in PlanNodeSets, asOf \in AsOfTimes :
         cfg = [Streams |-> streams,
                Nodes |-> NodesWithRequiresUpdate(nodes, streams),
                AsOf |-> asOf,
                IncludePreGA |-> FALSE]
    /\ pc = "config"
    /\ graph = NoGraph
    /\ errs = {}
    /\ plan = NoPlan
    /\ lifecycle = NoLifecycle

NextPlan == NewGraph \/ PlanOpenShiftUpdate \/ PrettyReport

SpecPlan == InitPlan /\ [][NextPlan]_vars

----------------------------------------------------------------------------
(* Inputs of the platform runs: one stream configuration, and platform
   versions of two majors for PlanOpenShiftUpdate *)

AllPlatforms == {4, 5} \X (14..MaxPlatformMinor)

PlatformStreams ==
    {s10 \o s11 \o s12 :
        s10 \in StreamOptions(<<1, 0>>, {DatesFull}, {<<1, 0, 0>>},
                    {{<<4, 14>>, <<4, 15>>, <<4, 16>>}}, {{}}) \ {<<>>},
        s11 \in StreamOptions(<<1, 1>>, {DatesFull}, {<<1, 0, 0>>},
                    {{<<4, 15>>, <<4, 16>>, <<4, 17>>}}, {{<<4, 14>>}}) \ {<<>>},
        s12 \in StreamOptions(<<1, 2>>, {DatesFull}, {<<1, 0, 0>>},
                    {{<<4, 16>>, <<4, 17>>, <<5, 14>>}}, {{}}) \ {<<>>}}

InitPlatforms ==
    /\ \E streams \in PlatformStreams, nodes \in PlanNodeSets, asOf \in AsOfTimes :
         cfg = [Streams |-> streams,
                Nodes |-> NodesWithRequiresUpdate(nodes, streams),
                AsOf |-> asOf,
                IncludePreGA |-> FALSE]
    /\ pc = "config"
    /\ graph = NoGraph
    /\ errs = {}
    /\ plan = NoPlan
    /\ lifecycle = NoLifecycle

\* PlanOpenShiftUpdate in the platform runs
PlanOpenShiftUpdateAnyPlatform ==
    PlanOpenShiftUpdateOver(AllPlatforms \X AllPlatforms)

NextPlatforms == NewGraph \/ PlanOpenShiftUpdateAnyPlatform \/ PrettyReport

SpecPlatforms == InitPlatforms /\ [][NextPlatforms]_vars

\* the termination runs: the same inputs, PlanOpenShiftUpdate taken step by
\* step; a call that has started keeps running
PlanCallAnyPlatform == PlanCall(AllPlatforms)

NextTermination ==
    \/ NewGraph
    \/ PlanCallAnyPlatform
    \/ PlanValidate
    \/ PlanEnumerate
    \/ PlanReturn
    \/ PrettyReport

SpecTermination ==
    /\ InitPlatforms
    /\ [][NextTermination]_vars
    /\ WF_vars(PlanValidate)
    /\ WF_vars(PlanEnumerate)
    /\ WF_vars(PlanReturn)

----------------------------------------------------------------------------
(* Inputs of the phase runs: lifecycle dates in any order with up to
   MaxExtensions extension dates, and a timestamp before, between and after
   them *)

PhaseDates ==
    [FullSupport : 1..MaxDate,
     Maintenance : 1..MaxDate,
     Extensions : UNION {[1..n -> 1..MaxDate] : n \in 0..MaxExtensions},
     EndOfLife : 1..MaxDate]

InitPhase ==
    /\ cfg = [Streams |-> <<>>, Nodes |-> {}, AsOf |-> 0, IncludePreGA |-> FALSE]
    /\ pc = "dates"
    /\ graph = NoGraph
    /\ errs = {}
    /\ plan = NoPlan
    /\ lifecycle \in [Dates : PhaseDates, AsOf : 0..(MaxDate + 1),
                       Called : {FALSE}, Phase : {LifeCyclePhaseUnknown}]

NextPhase == CallPhase

SpecPhase == InitPhase /\ [][NextPhase]_vars

\* the advancing runs: Phase is called again and again with later timestamps
NextAdvance == CallPhase \/ AdvanceAsOf

SpecAdvance == InitPhase /\ [][NextAdvance]_vars

----------------------------------------------------------------------------
(* Inputs of the comparison runs: three lifecycle phases, and an argument of
   LifecycleExtensionPhase around both ends of its valid range *)

LifecyclePhases ==
    {LifecyclePhaseFullSupport, LifecyclePhaseMaintenance,
     LifecyclePhaseEndOfLife, LifecyclePhasePreGA, LifeCyclePhaseUnknown}
    \cup {LifecycleExtensionPhase(k) : k \in 1..MaxExtensionPhase}

ExtensionInputs ==
    (-1 .. MaxExtensionPhase)
    \cup {LifecyclePhaseEndOfLife - 3, LifecyclePhaseEndOfLife - 2,
          LifecyclePhaseEndOfLife - 1, LifecyclePhaseEndOfLife,
          LifecyclePhasePreGA, LifeCyclePhaseUnknown}

InitLifecycle ==
    /\ cfg = [Streams |-> <<>>, Nodes |-> {}, AsOf |-> 0, IncludePreGA |-> FALSE]
    /\ pc = "phases"
    /\ graph = NoGraph
    /\ errs = {}
    /\ plan = NoPlan
    /\ lifecycle \in [A : LifecyclePhases, B : LifecyclePhases,
                       C : LifecyclePhases, I : ExtensionInputs,
                       Called : {""}, AB : {0}, BA : {0}, BC : {0}, AC : {0},
                       Panicked : {FALSE}, Extension : {0}, String : {<<>>}]

NextLifecycle == CallCompare \/ CallLifecycleExtensionPhase

SpecLifecycle == InitLifecycle /\ [][NextLifecycle]_vars

----------------------------------------------------------------------------
(* Inputs of the scenario runs: the nodes v3.9.0, v3.9.1, v3.10.0 and v3.10.1
   released in that order on any days, stream 3.9 in Full Support, stream
   3.10 with the dates of scenario A or of scenario B.  The dates are counted
   as 2024-01-01 = 1, 2024-05-01 = 2, 2024-06-01 = 3 (asOf), 2025-01-01 = 4
   and 2026-01-01 = 5. *)

ScenarioADates ==
    [FullSupport |-> 1, Maintenance |-> 4, Extensions |-> <<>>, EndOfLife |-> 5]

ScenarioBDates ==
    [FullSupport |-> 1, Maintenance |-> 4, Extensions |-> <<>>, EndOfLife |-> 2]

ScenarioVersions == <<(<<3, 9, 0>>), (<<3, 9, 1>>), (<<3, 10, 0>>), (<<3, 10, 1>>)>>

ScenarioNodeSets ==
    {{NewNode("a", ScenarioVersions[i], "", d[i]) : i \in 1..4} :
        d \in {f \in [1..4 -> 1..MaxScenarioReleaseDate] :
                  \A i \in 1..3 : f[i] < f[i + 1]}}

ScenarioStreams ==
    {s39 \o s310 :
        s39 \in StreamOptions(<<3, 9>>, {ScenarioADates}, {<<3, 9, 0>>},
                    {{<<4, 14>>}}, {{}}) \ {<<>>},
        s310 \in StreamOptions(<<3, 10>>, {ScenarioADates, ScenarioBDates},
                    {<<3, 9, 0>>}, {{<<4, 14>>}}, {{}}) \ {<<>>}}

InitScenario ==
    /\ cfg \in [Streams : ScenarioStreams,
                Nodes : ScenarioNodeSets,
                AsOf : AsOfTimes,
                IncludePreGA : BOOLEAN]
    /\ pc = "config"
    /\ graph = NoGraph
    /\ errs = {}
    /\ plan = NoPlan
    /\ lifecycle = NoLifecycle

NextScenario == NewGraph

SpecScenario == InitScenario /\ [][NextScenario]_vars

----------------------------------------------------------------------------
(* Inputs of the split runs: the nodes of the planner runs, with streams whose
   nodes are functional on 4.14 and 4.16 but not always on 4.15 *)

SplitStreams ==
    {s10 \o s11 \o s12 :
        s10 \in StreamOptions(<<1, 0>>, {DatesFull}, {<<1, 0, 0>>},
                    {{<<4, 14>>, <<4, 15>>}, {<<4, 14>>, <<4, 15>>, <<4, 16>>}},
                    {{}, {<<4, 16>>}}) \ {<<>>},
        s11 \in StreamOptions(<<1, 1>>, {DatesFull}, {<<1, 0, 0>>},
                    {{<<4, 14>>}, {<<4, 14>>, <<4, 15>>, <<4, 16>>}},
                    {{<<4, 16>>}}) \ {<<>>},
        s12 \in StreamOptions(<<1, 2>>, {DatesFull},
                    {<<1, 0, 0>>, <<1, 1, 0>>},
                    {{<<4, 16>>}}, {{}}) \ {<<>>}}

InitSplit ==
    /\ \E streams \in SplitStreams, nodes \in PlanNodeSets, asOf \in AsOfTimes :
         cfg = [Streams |-> streams,
                Nodes |-> NodesWithRequiresUpdate(nodes, streams),
                AsOf |-> asOf,
                IncludePreGA |-> FALSE]
    /\ pc = "config"
    /\ graph = NoGraph
    /\ errs = {}
    /\ plan = NoPlan
    /\ lifecycle = NoLifecycle

NextSplit == NewGraph \/ PlanOpenShiftUpdate \/ PrettyReport

SpecSplit == InitSplit /\ [][NextSplit]_vars

----------------------------------------------------------------------------
(* Properties of constructed graphs *)

Built == pc = "built"

GraphNode(id) == graph.nodes[id]

\* strictly better lifecycle phase
Better(p, q) == PhaseCompare(p, q) > 0

\* the stream buildEdges binds the node n to
StreamOf(n) == KeySlice(cfg.Streams)[NewMajorMinorFromVersion(n.Version)]

RECURSIVE Closure(_)
\* transitive closure of a relation given as a set of pairs
Closure(R) ==
    LET R2 == R \cup {<<p[1][1], p[2][2]>> : p \in {q \in R \X R : q[1][2] = q[2][1]}}
    IN  IF R2 = R THEN R ELSE Closure(R2)

\* C1: in every constructed graph no edge u -> v leads into a strictly worse
\* lifecycle phase (u.phase is never strictly better than v.phase).
C1_NoEdgeIntoWorsePhase ==
    Built =>
      \A e \in graph.edges :
        ~Better(GraphNode(e[1]).LifecyclePhase, GraphNode(e[2]).LifecyclePhase)

\* C2: in every constructed graph no edge u -> v crosses minor versions into
\* an End of Life node.
C2_NoCrossMinorEdgeIntoEndOfLife ==
    Built =>
      \A e \in graph.edges :
        ~(/\ GraphNode(e[1]).Version[2] # GraphNode(e[2]).Version[2]
          /\ GraphNode(e[2]).LifecyclePhase = LifecyclePhaseEndOfLife)

\* C3 as stated: every edge u -> v strictly increases the version, so two
\* nodes with equal version are never connected.
C3_EdgesStrictlyIncreaseVersion ==
    Built =>
      \A e \in graph.edges :
        VersionLT(GraphNode(e[1]).Version, GraphNode(e[2]).Version)

\* C3 as amended: no edge u -> v decreases the version (u.version <= v.version),
\* and no two nodes are connected in both directions.
C3_EdgesNeverDecreaseVersion ==
    Built =>
      \A e \in graph.edges :
        /\ VersionCompare(GraphNode(e[1]).Version, GraphNode(e[2]).Version) <= 0
        /\ <<e[2], e[1]>> \notin graph.edges

\* C3 witness: a graph with an edge between two builds of one version that
\* differ only in release, and an edge that strictly increases the version
C3_Witness ==
    /\ Built
    /\ \E e \in graph.edges :
         /\ GraphNode(e[1]).Version = GraphNode(e[2]).Version
         /\ GraphNode(e[1]).Name = GraphNode(e[2]).Name
         /\ GraphNode(e[1]).Release # GraphNode(e[2]).Release
    /\ \E e \in graph.edges :
         VersionLT(GraphNode(e[1]).Version, GraphNode(e[2]).Version)

\* C4: every constructed graph is acyclic: no node reaches itself over one or
\* more edges.
C4_Acyclic ==
    Built => \A e \in Closure(graph.edges) : e[1] # e[2]

\* C4 witness: a graph with a two-edge path, an edge between nodes of equal
\* version and an edge between nodes released at the same time
C4_Witness ==
    /\ Built
    /\ \E e1, e2 \in graph.edges : e1[2] = e2[1]
    /\ \E e \in graph.edges : GraphNode(e[1]).Version = GraphNode(e[2]).Version
    /\ \E e \in graph.edges :
         GraphNode(e[1]).ReleaseDate = GraphNode(e[2]).ReleaseDate

\* C5: every edge u -> v stays within one major version and leaves from a
\* version that is at least the minimum update version of v's stream.
C5_SameMajorAndMinimumUpdateVersion ==
    Built =>
      \A e \in graph.edges :
        /\ GraphNode(e[1]).Version[1] = GraphNode(e[2]).Version[1]
        /\ ~VersionLT(GraphNode(e[1]).Version,
                      StreamOf(GraphNode(e[2])).MinimumUpdateVersion)

\* C5 witness: a graph with an edge and with an earlier, lower node of the
\* same major that lies below the minimum update version of a later node's
\* stream
C5_Witness ==
    /\ Built
    /\ graph.edges # {}
    /\ \E u, v \in DOMAIN graph.nodes :
         /\ GraphNode(u).ReleaseDate < GraphNode(v).ReleaseDate
         /\ GraphNode(u).Version[1] = GraphNode(v).Version[1]
         /\ VersionLT(GraphNode(u).Version, GraphNode(v).Version)
         /\ VersionLT(GraphNode(u).Version,
                      StreamOf(GraphNode(v)).MinimumUpdateVersion)

\* C6: every edge of a constructed graph connects two nodes of the same
\* package name, whatever names the input nodes carry.
C6_NoEdgeCrossesPackages ==
    Built =>
      \A e \in graph.edges : GraphNode(e[1]).Name = GraphNode(e[2]).Name

\* C7: a graph built with IncludePreGA = false holds no Pre-GA node: none
\* among its nodes (NodesMatching(AllNodes)) and none among its heads.
C7_NoPreGANodePresent ==
    (Built /\ ~cfg.IncludePreGA) =>
      /\ \A n \in DOMAIN graph.nodes :
           GraphNode(n).LifecyclePhase # LifecyclePhasePreGA
      /\ \A n \in graph.heads :
           GraphNode(n).LifecyclePhase # LifecyclePhasePreGA

----------------------------------------------------------------------------
(* Properties of the edge weights *)

\* the paths of the graph that have at least one edge
EdgePaths == {p \in SimplePaths(DOMAIN graph.nodes, graph.edges) : Len(p) >= 2}

PhaseOf(id) == graph.nodes[id].LifecyclePhase

\* the path p has an edge into a node of the lifecycle tier
EntersTier(p, tier) == \E i \in 2..Len(p) : PhaseOf(p[i]) = tier

\* every edge of the path p leads into a tier strictly better than tier
StaysInBetterTiers(p, tier) == \A i \in 2..Len(p) : Better(PhaseOf(p[i]), tier)

\* the path p starts, ends and stays in the lifecycle tier
StaysInTier(p, tier) == \A i \in DOMAIN p : PhaseOf(p[i]) = tier

\* C8: for every lifecycle tier of the graph, a path with an edge into the
\* tier weighs strictly more than every simple path whose edges all lead into
\* strictly better tiers, for any number of tiers.
C8_WorseTierPathsWeighMore ==
    Built =>
      \E all \in {EdgePaths} :
        \A Q \in all : \A i \in 2..Len(Q) : \A P \in all :
          StaysInBetterTiers(P, PhaseOf(Q[i]))
            => PathWeight(graph.weight, Q) > PathWeight(graph.weight, P)

\* C9: for nodes u, w with u's phase strictly better than w's, every simple
\* path from u to w weighs strictly more than every simple path that stays
\* within u's tier.
C9_LeavingTierWeighsMoreThanStaying ==
    Built =>
      \E all \in {SimplePaths(DOMAIN graph.nodes, graph.edges)} :
        \A Q \in all :
          Better(PhaseOf(Q[1]), PhaseOf(Q[Len(Q)])) =>
            \A P \in all :
              StaysInTier(P, PhaseOf(Q[1]))
                => PathWeight(graph.weight, Q) > PathWeight(graph.weight, P)

\* C9 witness: a graph with a path of two edges from u into a worse tier and
\* a path of three edges that stays within u's tier
C9_Witness ==
    /\ Built
    /\ \E Q, P \in EdgePaths :
         /\ Len(Q) >= 3
         /\ Len(P) >= 4
         /\ Better(PhaseOf(Q[1]), PhaseOf(Q[Len(Q)]))
         /\ StaysInTier(P, PhaseOf(Q[1]))

----------------------------------------------------------------------------
(* Properties of update plans *)

Planned == pc = "planned" /\ plan.Error = <<>>

\* the platform versions from fromPlatform to toPlatform, both included
PlatformRange(fromPlatform, toPlatform) ==
    {<<fromPlatform[1], minor>> : minor \in fromPlatform[2]..toPlatform[2]}

\* the platforms the node id is functional on: supported or requires-update
FunctionalPlatforms(id) ==
    graph.nodes[id].SupportedPlatformVersions
        \cup graph.nodes[id].RequiresUpdatePlatformVersions

\* C10: in every error-free node plan the span node, the last node of Before,
\* is functional on every platform version from fromPlatform to toPlatform.
C10_SpanNodeFunctionalOnTraversedPlatforms ==
    Planned =>
      \A i \in DOMAIN plan.NodeUpdates :
        plan.NodeUpdates[i].Error = "" =>
          /\ plan.NodeUpdates[i].Before # <<>>
          /\ PlatformRange(plan.From, plan.To) \subseteq
                FunctionalPlatforms(
                    plan.NodeUpdates[i].Before[Len(plan.NodeUpdates[i].Before)])

\* C10 witness: an error-free node plan across three platform versions whose
\* span node is reached by an update and is updated again after the platform
C10_Witness ==
    /\ Planned
    /\ plan.To[2] = plan.From[2] + 2
    /\ \E i \in DOMAIN plan.NodeUpdates :
         /\ plan.NodeUpdates[i].Error = ""
         /\ Len(plan.NodeUpdates[i].Before) >= 2
         /\ Len(plan.NodeUpdates[i].After) >= 2

\* the nodes of the sequence p
NodesOf(p) == {p[i] : i \in DOMAIN p}

\* C11: in every error-free node plan every node of Before is functional on
\* fromPlatform and every node of After, the span node at its head included,
\* is functional on toPlatform.
C11_BeforeAndAfterFunctional ==
    Planned =>
      \A i \in DOMAIN plan.NodeUpdates :
        plan.NodeUpdates[i].Error = "" =>
          /\ \A n \in NodesOf(plan.NodeUpdates[i].Before) :
               plan.From \in FunctionalPlatforms(n)
          /\ \A n \in NodesOf(plan.NodeUpdates[i].After) :
               plan.To \in FunctionalPlatforms(n)

\* C11 witness: an error-free node plan over one platform step with an update
\* before the platform update and an update after it
C11_Witness ==
    /\ Planned
    /\ plan.To[2] = plan.From[2] + 1
    /\ \E i \in DOMAIN plan.NodeUpdates :
         /\ plan.NodeUpdates[i].Error = ""
         /\ Len(plan.NodeUpdates[i].Before) >= 2
         /\ Len(plan.NodeUpdates[i].After) >= 2

\* the path a node update suggests: Before followed by After without its head
SuggestedPath(pnu) ==
    IF pnu.After = <<>> THEN pnu.Before ELSE pnu.Before \o Tail(pnu.After)

\* C12: in every error-free node plan Before starts with the from node, Before
\* followed by After without its head is a shortest path of the graph from the
\* from node to its last node, its consecutive nodes are joined by edges, and
\* its last node is supported on toPlatform.
C12_PlanIsCandidateShortestPath ==
    Planned =>
      \A i \in DOMAIN plan.NodeUpdates :
        plan.NodeUpdates[i].Error = "" =>
          \E p \in {SuggestedPath(plan.NodeUpdates[i])} :
            /\ plan.NodeUpdates[i].Before # <<>>
            /\ plan.NodeUpdates[i].Before[1] = plan.NodeUpdates[i].From
            /\ p \in graph.paths[<<plan.NodeUpdates[i].From, p[Len(p)]>>]
            /\ \A k \in 1..(Len(p) - 1) : <<p[k], p[k + 1]>> \in graph.edges
            /\ plan.To \in graph.nodes[p[Len(p)]].SupportedPlatformVersions

\* C12 witness: an error-free node plan whose suggested path has three nodes
\* or more and continues after the platform update
C12_Witness ==
    /\ Planned
    /\ \E i \in DOMAIN plan.NodeUpdates :
         /\ plan.NodeUpdates[i].Error = ""
         /\ Len(plan.NodeUpdates[i].After) >= 2
         /\ Len(SuggestedPath(plan.NodeUpdates[i])) >= 3

----------------------------------------------------------------------------
(* Properties of the platform-step validation *)

\* toPlatform is a lower platform version than fromPlatform
IsDowngrade(fromPlatform, toPlatform) ==
    \/ toPlatform[1] < fromPlatform[1]
    \/ toPlatform[1] = fromPlatform[1] /\ toPlatform[2] < fromPlatform[2]

\* the furthest minor version an update from fromPlatform may reach
FurthestMinor(fromPlatform) ==
    IF fromPlatform[2] % 2 = 0 THEN fromPlatform[2] + 2 ELSE fromPlatform[2] + 1

\* C13: for fromPlatform # toPlatform the validation returns an error exactly
\* when toPlatform is lower, or the majors differ, or toPlatform.minor exceeds
\* fromPlatform.minor + 2 (even minor) or + 1 (odd minor); in the too-far case
\* the error names the furthest permitted target.
C13_ValidationRejectsExactly ==
    (pc = "planned" /\ plan.From # plan.To) =>
      /\ plan.Error # <<>> <=>
           \/ IsDowngrade(plan.From, plan.To)
           \/ plan.From[1] # plan.To[1]
           \/ plan.To[2] > FurthestMinor(plan.From)
      /\ (/\ ~IsDowngrade(plan.From, plan.To)
          /\ plan.From[1] = plan.To[1]
          /\ plan.To[2] > FurthestMinor(plan.From))
           => /\ plan.Error # <<>>
              /\ plan.Error[Len(plan.Error)] =
                    <<plan.From[1], FurthestMinor(plan.From)>>

\* C13 witness: the update from 4.15 to 4.17 is refused with an error that
\* names 4.16
C13_Witness ==
    /\ pc = "planned"
    /\ plan.From = <<4, 15>>
    /\ plan.To = <<4, 17>>
    /\ plan.Error # <<>>
    /\ plan.Error[Len(plan.Error)] = <<4, 16>>

\* C14 as stated: planning with fromPlatform = toPlatform is allowed: the
\* validation reports no error and a node update is planned for every from.
C14_SamePlatformAllowed ==
    (pc = "planned" /\ plan.From = plan.To) =>
      /\ plan.Error = <<>>
      /\ ~plan.Nil
      /\ Len(plan.NodeUpdates) = Len(plan.Froms)

\* C14 as amended: planning with fromPlatform = toPlatform is refused: the
\* validation reports that different versions are required, no plan is
\* returned and no node update is planned.
C14_SamePlatformRefused ==
    (pc = "planned" /\ plan.From = plan.To) =>
      /\ plan.Error =
            <<"platform update requires different from version and to version",
              plan.From, plan.To>>
      /\ plan.Nil
      /\ plan.NodeUpdates = <<>>

\* C14 witness: PlanOpenShiftUpdate has been called for a from node that is
\* supported on the platform, with fromPlatform = toPlatform
C14_Witness ==
    /\ pc = "planned"
    /\ plan.From = plan.To
    /\ Len(plan.Froms) = 1
    /\ plan.From \in graph.nodes[plan.Froms[1]].SupportedPlatformVersions

\* a failed validation of an update between different platform versions
ValidationFailed ==
    /\ pc = "planned"
    /\ plan.From # plan.To
    /\ \/ IsDowngrade(plan.From, plan.To)
       \/ plan.From[1] # plan.To[1]
       \/ plan.To[2] > FurthestMinor(plan.From)

\* C15 as stated: when the validation fails the planner still returns a plan:
\* it carries the validation error and a node update for every from node.
C15_FailedValidationStillPlans ==
    ValidationFailed =>
      /\ plan.Error # <<>>
      /\ ~plan.Nil
      /\ Len(plan.NodeUpdates) = Len(plan.Froms)

\* C15 as amended: when the validation fails the planner returns the
\* validation error and no plan: no node update is produced for any from node.
C15_FailedValidationAborts ==
    ValidationFailed =>
      /\ plan.Error # <<>>
      /\ plan.Nil
      /\ plan.NodeUpdates = <<>>

\* C15 witness: PlanOpenShiftUpdate has been called for a from node with a
\* downgrade, with a cross-major update or with a too-large minor step
C15_Witness ==
    /\ ValidationFailed
    /\ Len(plan.Froms) = 1
    /\ plan.From = <<4, 15>>
    /\ plan.To \in {<<4, 14>>, <<5, 15>>, <<4, 17>>}

\* C16: a from node that is supported on every platform version from
\* fromPlatform to toPlatform gets a node plan without error that suggests no
\* update: Before holds the from node alone and After is empty.
C16_SupportedFromNeedsNoUpdate ==
    Planned =>
      \A i \in DOMAIN plan.NodeUpdates :
        PlatformRange(plan.From, plan.To) \subseteq
            graph.nodes[plan.Froms[i]].SupportedPlatformVersions
          => plan.NodeUpdates[i] =
                [From |-> plan.Froms[i], Before |-> <<plan.Froms[i]>>,
                 After |-> <<>>, Error |-> ""]

\* C16 witness: a plan across three platform versions for a from node that
\* is supported on all of them and has an edge to a node supported on
\* toPlatform
C16_Witness ==
    /\ Planned
    /\ plan.To[2] = plan.From[2] + 2
    /\ \E i \in DOMAIN plan.NodeUpdates :
         /\ PlatformRange(plan.From, plan.To) \subseteq
               graph.nodes[plan.Froms[i]].SupportedPlatformVersions
         /\ \E e \in graph.edges :
              /\ e[1] = plan.Froms[i]
              /\ plan.To \in graph.nodes[e[2]].SupportedPlatformVersions

\* the input nodes whose major.minor has no stream in cfg.Streams
Unbound ==
    {NVR(n) : n \in {m \in cfg.Nodes :
        NewMajorMinorFromVersion(m.Version) \notin DOMAIN KeySlice(cfg.Streams)}}

\* the input nodes whose major.minor has a stream
Bound == {NVR(n) : n \in cfg.Nodes} \ Unbound

\* C17 as stated: when some input nodes have no matching stream, NewGraph
\* reports an error covering all of them and still yields a graph over the
\* nodes that did bind.
C17_MissingStreamStillYieldsGraph ==
    (pc # "config" /\ Unbound # {}) =>
      /\ errs = Unbound
      /\ graph # NoGraph
      /\ Bound \subseteq DOMAIN graph.nodes

\* C17 as amended: when some input nodes have no matching stream, NewGraph
\* reports an error covering exactly those nodes and returns no graph; it
\* returns a graph and no error exactly when every node has a stream.
C17_MissingStreamFailsConstruction ==
    pc # "config" =>
      /\ errs = Unbound
      /\ (Unbound # {} => pc = "failed" /\ graph = NoGraph)
      /\ (Unbound = {} => pc = "built" /\ DOMAIN graph.nodes = Bound)

\* C17 witness: NewGraph has run on two nodes without a stream and one node
\* with a stream
C17_Witness ==
    /\ pc = "failed"
    /\ Cardinality(Unbound) = 2
    /\ Bound # {}
    /\ errs = Unbound

\* the distinct non-empty package names of the input nodes
NodeNames == {n.Name : n \in cfg.Nodes} \ {""}

\* C18: NewGraph fails whenever the node list is empty, the stream list is
\* empty, asOf is the zero time, or the nodes carry more than one distinct
\* non-empty package name: a graph is only returned when none of these holds.
C18_InvalidConfigFails ==
    Built =>
      /\ cfg.Nodes # {}
      /\ cfg.Streams # <<>>
      /\ cfg.AsOf # 0
      /\ Cardinality(NodeNames) <= 1

\* the edge sets buildEdges can produce for cfg, one for every order in
\* which the sort by release date can leave the nodes
PossibleEdgeSets ==
    LET nodes0 == AddNodes(cfg.Nodes)
    IN  {buildEdges(cfg, nodes0, order).edges :
            order \in SortedFunc(DOMAIN nodes0,
                LAMBDA a, b : ReleaseDateCompare(nodes0[a], nodes0[b]))}

\* C19: graph construction is deterministic, also when several nodes share a
\* release timestamp: every run of NewGraph on the configuration of a
\* constructed graph produces the edge set of that graph.
C19_ConstructionDeterministic ==
    Built => PossibleEdgeSets = {graph.edges}

\* the phase runs where Phase has been called on dates in non-decreasing order
PhasedInOrder ==
    pc = "phased" /\ lifecycle.Called /\ ValidateOrder(lifecycle.Dates)

\* C20: for lifecycle dates in non-decreasing order with N extensions,
\* Phase(asOf) is Pre-GA iff asOf < fullSupport; Full Support iff
\* fullSupport <= asOf < maintenance; End of Life iff asOf >= maintenance and
\* asOf > eol; otherwise Maintenance if N = 0 or asOf < extensions[0], else
\* Extension-k for the k with extensions[k-1] <= asOf < extensions[k], and
\* Extension-N when asOf >= extensions[N-1].
C20_PhaseCaseAnalysis ==
    PhasedInOrder =>
      LET l == lifecycle.Dates
          asOf == lifecycle.AsOf
          r == lifecycle.Phase
          N == Len(l.Extensions)
      IN  /\ r = LifecyclePhasePreGA <=> asOf < l.FullSupport
          /\ r = LifecyclePhaseFullSupport <=>
                (l.FullSupport <= asOf /\ asOf < l.Maintenance)
          /\ r = LifecyclePhaseEndOfLife <=>
                (asOf >= l.Maintenance /\ asOf > l.EndOfLife)
          /\ (asOf >= l.Maintenance /\ asOf <= l.EndOfLife) =>
                IF N = 0 \/ asOf < l.Extensions[1]
                THEN r = LifecyclePhaseMaintenance
                ELSE /\ \A k \in 1..(N - 1) :
                          (l.Extensions[k] <= asOf /\ asOf < l.Extensions[k + 1])
                            => r = LifecycleExtensionPhase(k)
                     /\ asOf >= l.Extensions[N] => r = LifecycleExtensionPhase(N)
                     /\ \E k \in 1..N : r = LifecycleExtensionPhase(k)

\* C20 witness: Phase has been called on ordered dates with two distinct
\* extension dates at a timestamp between them and returned Extension-1
C20_Witness ==
    /\ PhasedInOrder
    /\ Len(lifecycle.Dates.Extensions) = 2
    /\ lifecycle.Dates.Extensions[1] <= lifecycle.AsOf
    /\ lifecycle.AsOf < lifecycle.Dates.Extensions[2]
    /\ lifecycle.Phase = LifecycleExtensionPhase(1)

\* the phases from best to worst, as the order of the lifecycle lists them
BestToWorst ==
    <<LifecyclePhaseFullSupport, LifecyclePhaseMaintenance>>
    \o [k \in 1..MaxExtensionPhase |-> LifecycleExtensionPhase(k)]
    \o <<LifecyclePhaseEndOfLife, LifecyclePhasePreGA>>

\* the position of the phase p in BestToWorst (0 when it is not listed)
Position(p) ==
    IF \E i \in DOMAIN BestToWorst : BestToWorst[i] = p
    THEN CHOOSE i \in DOMAIN BestToWorst : BestToWorst[i] = p
    ELSE 0

Compared == pc = "compared" /\ lifecycle.Called = "Compare"

\* C21: LifecyclePhase.Compare is a total order consistent with "better":
\* Compare(a, b) is 1 when a is strictly better than b, -1 when strictly
\* worse, 0 iff a = b, along FullSupport > Maintenance > Extension-1 >
\* Extension-2 > ... > EndOfLife > Pre-GA; it is antisymmetric and transitive
\* over all phases.
C21_CompareIsTotalOrderOfBetter ==
    Compared =>
      /\ lifecycle.AB \in {-1, 0, 1}
      /\ lifecycle.AB = 0 <=> lifecycle.A = lifecycle.B
      /\ lifecycle.AB = -lifecycle.BA
      /\ (lifecycle.AB >= 0 /\ lifecycle.BC >= 0) => lifecycle.AC >= 0
      /\ (lifecycle.AB > 0 /\ lifecycle.BC > 0) => lifecycle.AC > 0
      /\ (Position(lifecycle.A) # 0 /\ Position(lifecycle.B) # 0) =>
            /\ Position(lifecycle.A) < Position(lifecycle.B) => lifecycle.AB = 1
            /\ Position(lifecycle.A) > Position(lifecycle.B) => lifecycle.AB = -1

\* C21 witness: Compare has been called on an extension phase and End of
\* Life, and on End of Life and Pre-GA
C21_Witness ==
    /\ Compared
    /\ lifecycle.A = LifecycleExtensionPhase(2)
    /\ lifecycle.B = LifecyclePhaseEndOfLife
    /\ lifecycle.C = LifecyclePhasePreGA
    /\ lifecycle.AB = 1 /\ lifecycle.BC = 1 /\ lifecycle.AC = 1

Extended == pc = "extended" /\ lifecycle.Called = "LifecycleExtensionPhase"

\* C22: LifecycleExtensionPhase(i) panics for every i < 1 and every
\* i >= EndOfLife-1; for every other i it returns a phase distinct from
\* FullSupport, Maintenance, EndOfLife, Pre-GA and Unknown, strictly worse
\* than Maintenance and strictly better than EndOfLife, whose string form is
\* "EUS-i".
C22_ExtensionPhaseValidRange ==
    Extended =>
      /\ lifecycle.Panicked <=>
            (lifecycle.I < 1 \/ lifecycle.I >= LifecyclePhaseEndOfLife - 1)
      /\ ~lifecycle.Panicked =>
            /\ lifecycle.Extension \notin
                  {LifecyclePhaseFullSupport, LifecyclePhaseMaintenance,
                   LifecyclePhaseEndOfLife, LifecyclePhasePreGA,
                   LifeCyclePhaseUnknown}
            /\ PhaseCompare(lifecycle.Extension, LifecyclePhaseMaintenance) < 0
            /\ PhaseCompare(lifecycle.Extension, LifecyclePhaseEndOfLife) > 0
            /\ lifecycle.String = <<"EUS-", lifecycle.I>>

\* C22 witness: LifecycleExtensionPhase has returned for the largest valid
\* argument, EndOfLife-2
C22_Witness ==
    /\ Extended
    /\ lifecycle.I = LifecyclePhaseEndOfLife - 2
    /\ ~lifecycle.Panicked
    /\ lifecycle.Extension = LifecyclePhaseEndOfLife - 1

\* C22 witness of the other side: it has panicked on EndOfLife-1
C22_WitnessPanic ==
    /\ Extended
    /\ lifecycle.I = LifecyclePhaseEndOfLife - 1
    /\ lifecycle.Panicked

RECURSIVE SumWeights(_, _)
\* the sum of the weights of the edges of the set E
SumWeights(weight, E) ==
    IF E = {} THEN 0
    ELSE LET e == CHOOSE x \in E : TRUE
         IN  weight[e] + SumWeights(weight, E \ {e})

\* the lifecycle tiers of the nodes of the graph
TiersPresent == {PhaseOf(n) : n \in DOMAIN graph.nodes}

\* b and w are consecutive tiers of the graph, b the better one
ConsecutiveTiers(b, w) ==
    /\ b \in TiersPresent /\ w \in TiersPresent
    /\ Better(b, w)
    /\ ~\E t \in TiersPresent : Better(b, t) /\ Better(t, w)

\* the edges whose target is a node of the tier
EdgesInto(tier) == {e \in graph.edges : PhaseOf(e[2]) = tier}

RECURSIVE PickEdges(_, _)
\* the sets holding one edge of E for every node of targets
PickEdges(E, targets) ==
    IF targets = {} THEN {{}}
    ELSE LET t == CHOOSE x \in targets : TRUE
         IN  {P \cup {e} : P \in PickEdges(E, targets \ {t}),
                            e \in {f \in E : f[2] = t}}

\* the sets holding one incoming edge for every node of the tier that has one
OneEdgePerNode(tier) ==
    PickEdges(EdgesInto(tier), {e[2] : e \in EdgesInto(tier)})

\* C23 as stated: for consecutive tiers of the graph, the sum of the weights
\* of all edges into nodes of the better tier is strictly less than the
\* weight of any single edge into a node of the worse tier.
C23_AllEdgesOfBetterTierWeighLess ==
    Built =>
      \A b, w \in TiersPresent :
        ConsecutiveTiers(b, w) =>
          \E sum \in {SumWeights(graph.weight, EdgesInto(b))} :
            \A e \in EdgesInto(w) : sum < graph.weight[e]

\* C23 as amended: for consecutive tiers of the graph, the weights of one
\* incoming edge per node of the better tier sum to strictly less than the
\* weight of any single edge into a node of the worse tier.
C23_OneEdgePerBetterNodeWeighsLess ==
    Built =>
      \A b, w \in TiersPresent :
        ConsecutiveTiers(b, w) =>
          \A E \in OneEdgePerNode(b) :
            \E sum \in {SumWeights(graph.weight, E)} :
              \A e \in EdgesInto(w) : sum < graph.weight[e]

\* C23 witness: consecutive tiers where two nodes of the better tier have
\* incoming edges, one of them more than one, and the worse tier has an
\* incoming edge
C23_Witness ==
    /\ Built
    /\ \E b, w \in TiersPresent :
         /\ ConsecutiveTiers(b, w)
         /\ EdgesInto(w) # {}
         /\ Cardinality({e[2] : e \in EdgesInto(b)}) >= 2
         /\ Cardinality(EdgesInto(b)) > Cardinality({e[2] : e \in EdgesInto(b)})

\* the candidate p admits the decomposition the algorithm tries: with Before
\* the longest prefix of p functional on fromPlatform, Before is not empty, its
\* last node is functional on every traversed platform and the rest of p is
\* functional on toPlatform
Viable(p) ==
    \E k \in 1..Len(p) :
      /\ \A i \in 1..k : plan.From \in FunctionalPlatforms(p[i])
      /\ k = Len(p) \/ plan.From \notin FunctionalPlatforms(p[k + 1])
      /\ PlatformRange(plan.From, plan.To) \subseteq FunctionalPlatforms(p[k])
      /\ \A i \in (k + 1)..Len(p) : plan.To \in FunctionalPlatforms(p[i])

\* C24: every error-free node plan returns the first viable candidate in
\* (total weight ascending, path length ascending) order: the candidates are
\* in that order, none before the returned path is viable, and no viable
\* candidate weighs strictly less than the returned path.
C24_FirstViableCandidateReturned ==
    Planned =>
      \A i \in DOMAIN plan.NodeUpdates :
        plan.NodeUpdates[i].Error = "" =>
          \E r \in {SuggestedPath(plan.NodeUpdates[i])} :
          \E ups \in {plan.UpdatePaths[i]} :
            /\ \A j, k \in DOMAIN ups :
                 j < k =>
                   \/ PathWeight(graph.weight, ups[j]) < PathWeight(graph.weight, ups[k])
                   \/ /\ PathWeight(graph.weight, ups[j]) = PathWeight(graph.weight, ups[k])
                      /\ Len(ups[j]) <= Len(ups[k])
            /\ \E j \in DOMAIN ups :
                 /\ ups[j] = r
                 /\ Viable(r)
                 /\ \A k \in 1..(j - 1) : ~Viable(ups[k])
            /\ \A k \in DOMAIN ups :
                 Viable(ups[k]) =>
                   PathWeight(graph.weight, ups[k]) >= PathWeight(graph.weight, r)

\* C24 witness: an error-free node plan that returns the second candidate or a
\* later one, the lighter candidates before it not being viable
C24_Witness ==
    /\ Planned
    /\ \E i \in DOMAIN plan.NodeUpdates :
         /\ plan.NodeUpdates[i].Error = ""
         /\ \E j \in DOMAIN plan.UpdatePaths[i] :
              /\ 1 < j
              /\ plan.UpdatePaths[i][j] = SuggestedPath(plan.NodeUpdates[i])
              /\ ~Viable(plan.UpdatePaths[i][1])

\* the graph has been built from the inputs of scenario B
BuiltScenarioB ==
    /\ Built
    /\ \E i \in DOMAIN cfg.Streams :
         /\ cfg.Streams[i].Version = <<3, 10>>
         /\ cfg.Streams[i].LifecycleDates = ScenarioBDates

\* the node of package "a" with the version v
ScenarioNode(v) == <<"a", v, "">>

\* C25: in scenario B stream 3.10 is End of Life at asOf, so the graph over
\* v3.9.0, v3.9.1, v3.10.0, v3.10.1 has no edge from a 3.9 node to a 3.10 node
\* while the edge 3.10.0 -> 3.10.1 remains.
C25_ScenarioBPrunesEndOfLife ==
    BuiltScenarioB =>
      /\ PhaseOf(ScenarioNode(<<3, 10, 0>>)) = LifecyclePhaseEndOfLife
      /\ PhaseOf(ScenarioNode(<<3, 10, 1>>)) = LifecyclePhaseEndOfLife
      /\ \A e \in graph.edges :
           ~(e[1][2][2] = 9 /\ e[2][2][2] = 10)
      /\ <<ScenarioNode(<<3, 10, 0>>), ScenarioNode(<<3, 10, 1>>)>> \in graph.edges

\* C26: whenever an edge u -> v exists, the shortest path between u and v
\* is the single hop <<u, v>>, its weight is the weight of that edge, and every
\* path from u to v with more hops weighs strictly more.
C26_DirectEdgeIsShortestPath ==
    Built =>
      \E all \in {SimplePaths(DOMAIN graph.nodes, graph.edges)} :
        \A e \in graph.edges :
          /\ graph.paths[e] = {<<e[1], e[2]>>}
          /\ PathWeight(graph.weight, <<e[1], e[2]>>) = graph.weight[e]
          /\ \A p \in all :
               (p[1] = e[1] /\ p[Len(p)] = e[2] /\ Len(p) > 2)
                 => PathWeight(graph.weight, p) > graph.weight[e]

\* C26 witness: an edge u -> v next to a path of three edges from u to v
C26_Witness ==
    /\ Built
    /\ \E e \in graph.edges :
       \E p \in SimplePaths(DOMAIN graph.nodes, graph.edges) :
         p[1] = e[1] /\ p[Len(p)] = e[2] /\ Len(p) = 4

\* the node id is a backport: the graph has nodes of a higher version and all
\* of them were released before it
Backport(id) ==
    /\ \E m \in DOMAIN graph.nodes :
         VersionLT(GraphNode(id).Version, GraphNode(m).Version)
    /\ \A m \in DOMAIN graph.nodes :
         VersionLT(GraphNode(id).Version, GraphNode(m).Version)
           => GraphNode(m).ReleaseDate < GraphNode(id).ReleaseDate

\* every edge runs from a node to a node released at the same time or later
EdgesFollowReleaseDates ==
    \A e \in graph.edges :
      GraphNode(e[1]).ReleaseDate <= GraphNode(e[2]).ReleaseDate

\* C27 as stated: for every edge u -> v, u.releaseDate <= v.releaseDate, and
\* consequently a backport node has no outgoing edge and is a member of
\* Heads() even though higher versions exist in the graph.
C27_BackportsAreHeads ==
    Built =>
      /\ EdgesFollowReleaseDates
      /\ \A id \in DOMAIN graph.nodes :
           Backport(id) =>
             /\ \A e \in graph.edges : e[1] # id
             /\ id \in graph.heads

\* C27 as amended: for every edge u -> v, u.releaseDate <= v.releaseDate, and
\* consequently every outgoing edge of a backport node leads to a node of its
\* own version released at the same time or later; without such a node the
\* backport node has no outgoing edge and is a member of Heads().
C27_BackportsOnlyReachTheirOwnVersion ==
    Built =>
      /\ EdgesFollowReleaseDates
      /\ \A id \in DOMAIN graph.nodes :
           Backport(id) =>
             /\ \A e \in graph.edges :
                  e[1] = id =>
                    /\ GraphNode(e[2]).Version = GraphNode(id).Version
                    /\ GraphNode(e[2]).ReleaseDate >= GraphNode(id).ReleaseDate
             /\ (\A m \in DOMAIN graph.nodes \ {id} :
                    GraphNode(m).Version # GraphNode(id).Version)
                  => id \in graph.heads

\* C27 witness: a backport node that is a head although a node of a higher
\* version, with an incoming edge, was released before it
C27_Witness ==
    /\ Built
    /\ \E id \in DOMAIN graph.nodes :
         /\ Backport(id)
         /\ id \in graph.heads
         /\ \E e \in graph.edges :
              VersionLT(GraphNode(id).Version, GraphNode(e[2]).Version)

\* C28: planning terminates for every pair (fromPlatform, toPlatform), also
\* for a toPlatform of a higher major version and for a toPlatform below
\* fromPlatform: every call of PlanOpenShiftUpdate returns a plan or an error.
C28_PlanningTerminates ==
    (pc = "validating") ~> (pc = "planned")

\* C28 witness: a call with a toPlatform of a higher major version has returned
\* its error
C28_Witness ==
    /\ pc = "planned"
    /\ plan.To[1] > plan.From[1]
    /\ plan.Nil
    /\ plan.Error # <<>>
    /\ plan.TraversedPlatforms = <<>>

\* C28 witness of a call that enumerated three platform versions and returned
\* a plan
C28_WitnessEnumerated ==
    /\ pc = "planned"
    /\ ~plan.Nil
    /\ Len(plan.TraversedPlatforms) = 3

\* the candidate p can be split at its index k: p[1..k] are functional on
\* fromPlatform, p[k] is functional on every traversed platform and p[k..] are
\* functional on toPlatform
SplitsAt(p, k) ==
    /\ \A i \in 1..k : plan.From \in FunctionalPlatforms(p[i])
    /\ PlatformRange(plan.From, plan.To) \subseteq FunctionalPlatforms(p[k])
    /\ \A i \in k..Len(p) : plan.To \in FunctionalPlatforms(p[i])

\* C29: the planner reports the "no update paths coincide" error for a from
\* node only if no candidate path of that node can be split at any index.
C29_CompleteOverSplitPoints ==
    Planned =>
      \A i \in DOMAIN plan.NodeUpdates :
        plan.NodeUpdates[i].Error =
            "No update paths from this version coincide with the support along the platform update path"
          => \A j \in DOMAIN plan.UpdatePaths[i] :
               \A k \in DOMAIN plan.UpdatePaths[i][j] :
                 ~SplitsAt(plan.UpdatePaths[i][j], k)

\* the phases in the order a stream passes through them
LifecycleSequence ==
    <<LifecyclePhasePreGA, LifecyclePhaseFullSupport, LifecyclePhaseMaintenance>>
    \o [k \in 1..MaxExtensionPhase |-> LifecycleExtensionPhase(k)]
    \o <<LifecyclePhaseEndOfLife>>

\* the position of the phase p in LifecycleSequence
Stage(p) == CHOOSE i \in DOMAIN LifecycleSequence : LifecycleSequence[i] = p

\* C30: for lifecycle dates that pass ValidateOrder the phase only moves
\* forward as asOf advances: the phase at a later timestamp is equal to or
\* later than the phase before it in the sequence Pre-GA, Full Support,
\* Maintenance, Extension-1, ..., Extension-N, End of Life, and End of Life is
\* never left.
C30_PhaseOnlyMovesForward ==
    [][(/\ pc \in {"phased", "advanced"}
        /\ ValidateOrder(lifecycle.Dates)
        /\ lifecycle'.AsOf >= lifecycle.AsOf)
         => /\ Stage(lifecycle.Phase) <= Stage(lifecycle'.Phase)
            /\ lifecycle.Phase = LifecyclePhaseEndOfLife
                 => lifecycle'.Phase = LifecyclePhaseEndOfLife]_vars

\* C30 witness: on ordered dates with two extensions the timestamp has
\* advanced out of an extension phase into End of Life
C30_Witness ==
    /\ pc = "advanced"
    /\ ValidateOrder(lifecycle.Dates)
    /\ Len(lifecycle.Dates.Extensions) = 2
    /\ lifecycle.Dates.Maintenance < lifecycle.Dates.Extensions[1]
    /\ lifecycle.Dates.Extensions[1] < lifecycle.Dates.Extensions[2]
    /\ lifecycle.Dates.Extensions[2] < lifecycle.Dates.EndOfLife
    /\ lifecycle.Phase = LifecyclePhaseEndOfLife

====
